---------------------------- MODULE Spec2Model ----------------------------
(***************************************************************************)
(* Refresh orchestrator (contexts/DashboardContext.tsx) and live-data      *)
(* stream hook (hooks/useRealTimeData.ts) of the data dashboard.           *)
(*                                                                         *)
(* React is modelled by what the code relies on: a reducer state that is   *)
(* the fold of every dispatched action, the snapshot of that state the     *)
(* callbacks of the last committed render closed over, and the effects     *)
(* that run (cleanup first) when a commit changes their dependencies.      *)
(* Interval timers are kept as a bag of handles: two handles scheduled     *)
(* with the same delay and the same callback behave alike.  Dispatches     *)
(* and setState calls on an unmounted component are ignored, as React      *)
(* does.                                                                   *)
(***************************************************************************)
EXTENDS Integers, Sequences, FiniteSets, Bags, TLC

VARIABLES
    state,        \* DashboardState held by useReducer
    rendered,     \* filters and config the callbacks of the last commit closed over
    dashTimers,   \* bag of live setInterval handles of the auto-refresh effect
    pending,      \* fetches awaiting the remote fetch layer
    refreshes,    \* one record per refreshAllData() invocation (its Promise.all)
    nextFetch,    \* id the next started fetch gets
    mounted,      \* DashboardProvider is mounted
    data,         \* RealTimeDataState held by useState in the stream hook
    intervalRef,  \* intervalRef.current of the stream hook (NoHandle = null)
    configRef,    \* configRef.current of the stream hook
    streamTimers, \* bag of live setInterval handles of the stream hook
    restarts,     \* pending setTimeout(startStream, 100) callbacks
    liveSeen,     \* data.isLive the callbacks of the last render closed over
    streamMounted,\* the component owning the stream hook is mounted
    nextGen,      \* generation the next regenerated bundle gets
    ops,          \* stream operations handled since the hook last rendered
    enabled,          \* the enabled option the owner of the connection hook passes
    isConnected,      \* isConnected held by useState in the connection hook
    connectionStatus, \* connectionStatus held by useState in the connection hook
    lastUpdate,       \* lastUpdate held by useState (0 = null)
    connIntervalRef,  \* intervalRef.current of the connection hook
    connTimers,       \* bag of live setInterval handles of the connection hook
    handshakes,       \* pending setTimeout callbacks of connect()
    connRendered,     \* option and state the last commit of the connection hook saw
    connMounted,      \* the component owning the connection hook is mounted
    delivered,        \* stamp of the last bundle handed to onDataUpdate (0 = none)
    nextUpdate,       \* stamp the next new Date() of the connection hook gets
    connOp,           \* the operation the connection hook handled last
    storage,          \* the item localStorage holds under the preferences key
    held,             \* storedValue of every useLocalStorage instance on that key
    inbox,            \* storage events queued for each window, oldest first
    boundary,         \* state of the ErrorBoundary around the providers
    caught,           \* render errors the boundary has caught so far
    currentDate,      \* year and month (0..11) new Date() returns in the generators
    revenueSeries     \* the result of the last generateRevenueData call

dashVars == <<state, rendered, dashTimers, pending, refreshes, nextFetch, mounted>>
streamVars == <<data, intervalRef, configRef, streamTimers, restarts, liveSeen,
                streamMounted, nextGen, ops>>
connVars == <<enabled, isConnected, connectionStatus, lastUpdate, connIntervalRef,
              connTimers, handshakes, connRendered, connMounted, delivered, nextUpdate,
              connOp>>
appVars == <<storage, held, inbox, boundary, caught, currentDate, revenueSeries>>
vars == <<dashVars, streamVars, connVars, appVars>>

---------------------------------------------------------------------------
(* Bounds of the model *)

\* refreshAllData() invocations in a behaviour, by consumers and by the timer
MaxRefreshes == 1
\* calls of a single fetch function by a consumer in a behaviour
MaxSingles == 1
\* updateFilters calls in a behaviour (each creates a new filters object)
MaxFilterUpdates == 1
\* updateFilters calls of the filter bar in a behaviour
MaxFilterBarUpdates == 2

---------------------------------------------------------------------------
(* Orchestrator: values *)

Kinds == {"metrics", "salesData", "userAnalytics", "performanceMetrics"}

DefaultRefreshInterval == 300000

\* values of config.refreshInterval the settings may pass
RefreshIntervals == {0, 1000, DefaultRefreshInterval}

NoValue == "undefined"
Categories == {"Electronics"}

\* a null AppError and a null message
NoError == [code |-> "null", message |-> "null", context |-> "null",
            cause |-> "null", timestamp |-> 0]
NoMessage == "null"

\* what the api layer throws: always the AppError object handleApiError built,
\* a plain object, never an instance of Error
ApiThrows(kind) ==
    IF kind \in {"salesData", "userAnalytics"}
    THEN {[isError |-> FALSE, code |-> "API_ERROR_UNKNOWN", message |-> "Network Error"]}
    ELSE {[isError |-> FALSE, code |-> "UNKNOWN_ERROR",
           message |-> "An unexpected error occurred"]}

\* the values handleError accepts (error: unknown): what the api layer throws,
\* and an instance of Error
Throwables ==
    UNION {ApiThrows(kind) : kind \in Kinds}
    \cup {[isError |-> TRUE, code |-> NoValue, message |-> "Request failed"]}

initialState ==
    [metrics |-> 0, salesData |-> 0, userAnalytics |-> 0, performanceMetrics |-> 0,
     loading |-> [isLoading |-> FALSE, error |-> NoMessage, lastUpdated |-> 0],
     filters |-> [ref |-> 0, category |-> NoValue, region |-> NoValue],
     config |-> [refreshInterval |-> DefaultRefreshInterval, autoRefresh |-> TRUE],
     error |-> NoError]

---------------------------------------------------------------------------
(* Orchestrator: reducer *)

\* { ...state.config, ...payload } for a Partial<DashboardConfig>
MergeConfig(config, partial) ==
    [refreshInterval |-> IF "refreshInterval" \in DOMAIN partial
                         THEN partial.refreshInterval ELSE config.refreshInterval,
     autoRefresh |-> IF "autoRefresh" \in DOMAIN partial
                     THEN partial.autoRefresh ELSE config.autoRefresh]

\* SET_ERROR that forgets to end the loading state
SetErrorKeepsLoading(s, payload) ==
    [s EXCEPT !.error = payload,
              !.loading = [@ EXCEPT !.error = IF payload = NoError \/ payload.message = ""
                                               THEN NoMessage ELSE payload.message]]

\* SET_ERROR that resets the datasets
SetErrorClearsData(s, payload) ==
    [s EXCEPT !.error = payload,
              !.metrics = 0, !.salesData = 0, !.userAnalytics = 0,
              !.performanceMetrics = 0,
              !.loading = [@ EXCEPT !.isLoading = FALSE,
                                    !.error = IF payload = NoError \/ payload.message = ""
                                              THEN NoMessage ELSE payload.message]]

\* SET_ERROR that falls back to the initial filters
SetErrorResetsFilters(s, payload) ==
    [s EXCEPT !.error = payload,
              !.filters = initialState.filters,
              !.loading = [@ EXCEPT !.isLoading = FALSE,
                                    !.error = IF payload = NoError \/ payload.message = ""
                                              THEN NoMessage ELSE payload.message]]

SetError(s, payload) ==
    [s EXCEPT !.error = payload,
              !.loading = [@ EXCEPT !.isLoading = FALSE,
                                    !.error = IF payload = NoError \/ payload.message = ""
                                              THEN NoMessage ELSE payload.message]]

dashboardReducer(s, action) ==
    CASE action.type = "SET_LOADING" ->
            [s EXCEPT !.loading = [@ EXCEPT !.isLoading = action.isLoading]]
      [] action.type = "SET_ERROR" -> SetError(s, action.payload)
      [] action.type = "SET_METRICS" ->
            [s EXCEPT !.metrics = action.payload,
                      !.loading = [@ EXCEPT !.isLoading = FALSE,
                                            !.error = NoMessage,
                                            !.lastUpdated = action.now]]
      [] action.type = "SET_SALES_DATA" -> [s EXCEPT !.salesData = action.payload]
      [] action.type = "SET_USER_ANALYTICS" -> [s EXCEPT !.userAnalytics = action.payload]
      [] action.type = "SET_PERFORMANCE_METRICS" ->
            [s EXCEPT !.performanceMetrics = action.payload]
      [] action.type = "SET_FILTERS" -> [s EXCEPT !.filters = action.payload]
      [] action.type = "SET_CONFIG" ->
            [s EXCEPT !.config = MergeConfig(s.config, action.payload)]
      [] OTHER -> s

\* dispatch: React drops updates of an unmounted component
Dispatch(s, action) == IF mounted THEN dashboardReducer(s, action) ELSE s


---------------------------------------------------------------------------
(* Orchestrator: fetches *)

ContextOf(kind) ==
    CASE kind = "metrics" -> "fetchMetrics"
      [] kind = "salesData" -> "fetchSalesData"
      [] kind = "userAnalytics" -> "fetchUserAnalytics"
      [] kind = "performanceMetrics" -> "fetchPerformanceMetrics"

\* `now` stands for new Date(): the settling fetch's id stamps the moment it settles
handleError(thrown, context, now) ==
    [type |-> "SET_ERROR",
     payload |-> [code |-> "DASHBOARD_ERROR",
                  message |-> IF thrown.isError THEN thrown.message
                              ELSE "An unexpected error occurred",
                  context |-> context,
                  cause |-> thrown.code,
                  timestamp |-> now]]

\* the action a fetch dispatches when the api call returns
SuccessAction(f) ==
    CASE f.kind = "metrics" -> [type |-> "SET_METRICS", payload |-> f.id, now |-> f.id]
      [] f.kind = "salesData" -> [type |-> "SET_SALES_DATA", payload |-> f.id]
      [] f.kind = "userAnalytics" -> [type |-> "SET_USER_ANALYTICS", payload |-> f.id]
      [] f.kind = "performanceMetrics" ->
            [type |-> "SET_PERFORMANCE_METRICS", payload |-> f.id]

\* a fetch* function whose catch block rethrows
FetchSettlesRethrowing(ok) == IF ok THEN "fulfilled" ELSE "rejected"

\* how the promise of a fetch* function settles: try and catch both return
FetchSettles(ok) == "fulfilled"

\* Promise.all that settles with the first promise to settle
PromiseRace(outcomes) ==
    IF \E k \in Kinds : outcomes[k] = "rejected" THEN "rejected"
    ELSE IF \E k \in Kinds : outcomes[k] = "fulfilled" THEN "fulfilled"
    ELSE "pending"

\* Promise.all over the four fetch promises
PromiseAll(outcomes) ==
    IF \E k \in Kinds : outcomes[k] = "rejected" THEN "rejected"
    ELSE IF \A k \in Kinds : outcomes[k] = "fulfilled" THEN "fulfilled"
    ELSE "pending"

\* the state after the synchronous part of a fetch of `kind`, and its request
StartedState(s, kind) ==
    IF kind = "metrics"
    THEN Dispatch(s, [type |-> "SET_LOADING", key |-> "metrics", isLoading |-> TRUE])
    ELSE s

\* the query parameters of the request an api function sends: getSalesData
\* takes the filters and calls apiClient.get('/posts') without them, the others
\* take no argument
RequestParams(kind, filters) == [category |-> NoValue, region |-> NoValue]

\* `sent` is the category of the filters handed to the api function, `params`
\* what the outgoing request carries
Request(id, kind, group, filters) ==
    [id |-> id, kind |-> kind, group |-> group,
     sent |-> IF kind = "salesData" THEN filters.category ELSE NoValue,
     params |-> RequestParams(kind, filters)]

\* the fetches refreshAllData starts, in order
RefreshKinds == <<"metrics", "salesData", "userAnalytics", "performanceMetrics">>

\* refreshAllData() run with the callbacks that closed over `filters`
refreshAllData(filters, by) ==
    LET g == Len(refreshes) + 1
        started == {Request(nextFetch + i - 1, RefreshKinds[i], g, filters) :
                        i \in 1..Len(RefreshKinds)}
    IN  /\ Len(refreshes) < MaxRefreshes
        /\ state' = StartedState(state, "metrics")
        /\ pending' = pending \cup started
        /\ nextFetch' = nextFetch + 4
        /\ refreshes' = Append(refreshes,
                               [first |-> nextFetch, by |-> by,
                                outcomes |-> [k \in Kinds |->
                                    IF \E f \in started : f.kind = k
                                    THEN "pending" ELSE "unstarted"],
                                status |-> "pending"])

\* a consumer calls refreshAllData of the context value it rendered with
ManualRefresh ==
    /\ mounted
    /\ refreshAllData(rendered.filters, "consumer")
    /\ UNCHANGED <<rendered, dashTimers, mounted, streamVars, connVars, appVars>>

\* the auto-refresh interval fires: its callback closed over refreshAllData
RefreshTick ==
    /\ \E t \in BagToSet(dashTimers) : refreshAllData(t.filters, "timer")
    /\ UNCHANGED <<rendered, dashTimers, mounted, streamVars, connVars, appVars>>

\* single fetches started so far, the initial one not counted
Singles == nextFetch - 2 - 4 * Len(refreshes)

\* a consumer calls one of fetchMetrics, fetchSalesData, fetchUserAnalytics,
\* fetchPerformanceMetrics
FetchOne ==
    /\ mounted
    /\ Singles < MaxSingles
    /\ \E kind \in Kinds :
        /\ state' = StartedState(state, kind)
        /\ pending' = pending \cup {Request(nextFetch, kind, 0, rendered.filters)}
    /\ nextFetch' = nextFetch + 1
    /\ UNCHANGED <<rendered, dashTimers, refreshes, mounted, streamVars, connVars, appVars>>

Settle(f, ok) ==
    IF f.group = 0 THEN refreshes
    ELSE LET r == refreshes[f.group]
             o == [r.outcomes EXCEPT ![f.kind] = FetchSettles(ok)]
         IN  [refreshes EXCEPT ![f.group] =
                [r EXCEPT !.outcomes = o,
                          !.status = IF r.status = "pending" THEN PromiseAll(o)
                                     ELSE r.status]]

\* the api call of a pending fetch returns its response
FetchSucceeds ==
    \E f \in pending :
        /\ pending' = pending \ {f}
        /\ state' = Dispatch(state, SuccessAction(f))
        /\ refreshes' = Settle(f, TRUE)
        /\ UNCHANGED <<rendered, dashTimers, nextFetch, mounted, streamVars, connVars, appVars>>

\* the api call of a pending fetch throws
FetchFails ==
    \E f \in pending : \E thrown \in ApiThrows(f.kind) :
        /\ pending' = pending \ {f}
        /\ state' = Dispatch(state, handleError(thrown, ContextOf(f.kind), f.id))
        /\ refreshes' = Settle(f, FALSE)
        /\ UNCHANGED <<rendered, dashTimers, nextFetch, mounted, streamVars, connVars, appVars>>

---------------------------------------------------------------------------
(* Orchestrator: state updates, commit and effects *)

ConfigPartials ==
    {[autoRefresh |-> b] : b \in BOOLEAN}
    \cup {[refreshInterval |-> n] : n \in RefreshIntervals}

FilterPartials == {[category |-> c] : c \in Categories}

Regions == {"North"}
FilterBarPartials == FilterPartials \cup {[region |-> r] : r \in Regions}

updateConfig ==
    /\ mounted
    /\ \E partial \in ConfigPartials :
        state' = Dispatch(state, [type |-> "SET_CONFIG", payload |-> partial])
    /\ UNCHANGED <<rendered, dashTimers, pending, refreshes, nextFetch, mounted, streamVars, connVars, appVars>>

\* { ...state.filters, ...filters }: a new object built on the rendered filters
MergeFilters(filters, partial, ref) ==
    [ref |-> ref,
     category |-> IF "category" \in DOMAIN partial THEN partial.category
                  ELSE filters.category,
     region |-> IF "region" \in DOMAIN partial THEN partial.region ELSE filters.region]

\* updateFilters called with one of `partials`, at most `limit` times
updateFiltersOf(partials, limit) ==
    /\ mounted
    /\ state.filters.ref < limit
    /\ \E partial \in partials :
        state' = Dispatch(state,
                    [type |-> "SET_FILTERS",
                     payload |-> MergeFilters(rendered.filters, partial,
                                              state.filters.ref + 1)])
    /\ UNCHANGED <<rendered, dashTimers, pending, refreshes, nextFetch, mounted, streamVars, connVars, appVars>>

updateFilters == updateFiltersOf(FilterPartials, MaxFilterUpdates)

\* updateFilters of a filter bar that sets category and region separately
UpdateFilterBar == updateFiltersOf(FilterBarPartials, MaxFilterBarUpdates)

clearError ==
    /\ mounted
    /\ state' = Dispatch(state, [type |-> "SET_ERROR", payload |-> NoError])
    /\ UNCHANGED <<rendered, dashTimers, pending, refreshes, nextFetch, mounted, streamVars, connVars, appVars>>

Snapshot(s) == [filters |-> s.filters, config |-> s.config]

\* the handle the auto-refresh effect of a commit creates
EffectTimer(r) == [interval |-> r.config.refreshInterval, filters |-> r.filters]

EffectEnabled(r) == r.config.autoRefresh /\ r.config.refreshInterval > 0

\* an effect whose cleanup clears nothing
EffectCleanupMissing(r, timers) == timers

\* return () => clearInterval(interval)
EffectCleanup(r, timers) ==
    IF EffectEnabled(r) THEN timers (-) SetToBag({EffectTimer(r)}) ELSE timers

\* an effect that schedules whenever autoRefresh is set
EffectRunUnguarded(r, timers) ==
    IF r.config.autoRefresh THEN timers (+) SetToBag({EffectTimer(r)}) ELSE timers

\* if (autoRefresh && refreshInterval > 0) setInterval(refreshAllData, refreshInterval)
EffectRun(r, timers) ==
    IF EffectEnabled(r) THEN timers (+) SetToBag({EffectTimer(r)}) ELSE timers

\* dependencies [autoRefresh, refreshInterval, refreshAllData]: refreshAllData is
\* a new function exactly when state.filters is a new object
DepsChanged(old, new) ==
    \/ old.config.autoRefresh # new.config.autoRefresh
    \/ old.config.refreshInterval # new.config.refreshInterval
    \/ old.filters.ref # new.filters.ref

\* React commits a render of the provider and runs the effects whose
\* dependencies changed
Render ==
    /\ mounted
    /\ rendered # Snapshot(state)
    /\ rendered' = Snapshot(state)
    /\ dashTimers' = IF DepsChanged(rendered, Snapshot(state))
                     THEN EffectRun(Snapshot(state), EffectCleanup(rendered, dashTimers))
                     ELSE dashTimers
    /\ UNCHANGED <<state, pending, refreshes, nextFetch, mounted, streamVars, connVars, appVars>>

Unmount ==
    /\ mounted
    /\ mounted' = FALSE
    /\ dashTimers' = EffectCleanup(rendered, dashTimers)
    /\ UNCHANGED <<state, rendered, pending, refreshes, nextFetch, streamVars, connVars, appVars>>

\* the provider after its first commit: the auto-refresh effect has scheduled
\* its interval and the initial fetchMetrics() is awaiting the api
DashInit ==
    /\ state = [initialState EXCEPT !.loading = [@ EXCEPT !.isLoading = TRUE]]
    /\ rendered = Snapshot(initialState)
    /\ dashTimers = EffectRun(Snapshot(initialState), EmptyBag)
    /\ pending = {Request(1, "metrics", 0, initialState.filters)}
    /\ refreshes = <<>>
    /\ nextFetch = 2
    /\ mounted = TRUE

DashNext ==
    \/ ManualRefresh
    \/ RefreshTick
    \/ FetchSucceeds
    \/ FetchFails
    \/ updateConfig
    \/ updateFilters
    \/ clearError
    \/ Render
    \/ Unmount

---------------------------------------------------------------------------
(* Stream hook (hooks/useRealTimeData.ts) *)

\* regenerations of the bundle in a behaviour
MaxGenerations == 4
\* setTimeout(startStream, 100) callbacks pending at once
MaxRestarts == 2
\* start/stop operations the hook handles between two renders
MaxBatch == 2

DefaultStreamInterval == 5000
AnalyticsStreamInterval == 3000

\* the config argument of the hook: none, or the one pages/EnhancedAnalytics passes
StreamConfigArgs == {[volatility |-> "0.3"], [interval |-> AnalyticsStreamInterval]}

\* the partial configs updateConfig is called with
StreamConfigPartials == {[volatility |-> "0.5"], [interval |-> 1000], [interval |-> 0]}

\* { ...configRef.current, ...newConfig }: volatility and trend are read nowhere
MergeStreamConfig(config, partial) ==
    [interval |-> IF "interval" \in DOMAIN partial THEN partial.interval
                  ELSE config.interval]

\* the hook's own state, passed through the callbacks
Hook == [data |-> data, intervalRef |-> intervalRef, timers |-> streamTimers,
         nextGen |-> nextGen]

Handle(interval) == [interval |-> interval]

\* a regeneration that replaces the datasets one state update at a time and is
\* observed between two of them
generateFreshDataPiecewise(h) ==
    IF streamMounted
    THEN [h EXCEPT !.data = [@ EXCEPT !.revenue = h.nextGen, !.users = h.nextGen],
                   !.nextGen = h.nextGen + 1]
    ELSE h

\* setData and the generators behind it do nothing observable once unmounted
generateFreshData(h) ==
    IF streamMounted
    THEN [h EXCEPT !.data = [revenue |-> h.nextGen, users |-> h.nextGen,
                             performance |-> h.nextGen, keywords |-> h.nextGen,
                             lastUpdated |-> h.nextGen, isLive |-> h.data.isLive],
                   !.nextGen = h.nextGen + 1]
    ELSE h

SetLive(h, live) ==
    IF streamMounted THEN [h EXCEPT !.data = [@ EXCEPT !.isLive = live]] ELSE h

\* startStream without the guard on intervalRef.current
startStreamUnguarded(h, config) ==
    LET g == generateFreshData(SetLive(h, TRUE))
    IN  [g EXCEPT !.intervalRef = <<Handle(config.interval)>>,
                  !.timers = h.timers (+) SetToBag({Handle(config.interval)})]

startStream(h, config) ==
    IF h.intervalRef # <<>> THEN h
    ELSE LET g == generateFreshData(SetLive(h, TRUE))
         IN  [g EXCEPT !.intervalRef = <<Handle(config.interval)>>,
                       !.timers = h.timers (+) SetToBag({Handle(config.interval)})]

stopStream(h) ==
    SetLive(IF h.intervalRef # <<>>
            THEN [h EXCEPT !.timers = h.timers (-) SetToBag({h.intervalRef[1]}),
                           !.intervalRef = <<>>]
            ELSE h,
            FALSE)

\* toggleStream that reads the current data.isLive
toggleStreamFresh(h, config) ==
    IF h.data.isLive THEN stopStream(h) ELSE startStream(h, config)

\* toggleStream that always starts
toggleStreamStarts(h, config) == startStream(h, config)

\* toggleStream reads data.isLive of the render it was created in
toggleStream(h, config) ==
    IF liveSeen THEN stopStream(h) ELSE startStream(h, config)

Apply(h) ==
    /\ data' = h.data
    /\ intervalRef' = h.intervalRef
    /\ streamTimers' = h.timers
    /\ nextGen' = h.nextGen

CanGenerate == nextGen <= MaxGenerations
CanCall == streamMounted /\ Len(ops) < MaxBatch

StartStream ==
    /\ CanCall /\ CanGenerate
    /\ Apply(startStream(Hook, configRef))
    /\ ops' = Append(ops, "startStream")
    /\ UNCHANGED <<configRef, restarts, liveSeen, streamMounted, dashVars, connVars, appVars>>

StopStream ==
    /\ CanCall
    /\ Apply(stopStream(Hook))
    /\ ops' = Append(ops, "stopStream")
    /\ UNCHANGED <<configRef, restarts, liveSeen, streamMounted, dashVars, connVars, appVars>>

ToggleStream ==
    /\ CanCall /\ CanGenerate
    /\ Apply(toggleStream(Hook, configRef))
    /\ ops' = Append(ops, "toggleStream")
    /\ UNCHANGED <<configRef, restarts, liveSeen, streamMounted, dashVars, connVars, appVars>>

\* updateConfig of the hook: the restart is decided on the rendered data.isLive
UpdateStreamConfig ==
    /\ CanCall
    /\ liveSeen => restarts < MaxRestarts
    /\ \E partial \in StreamConfigPartials :
        configRef' = MergeStreamConfig(configRef, partial)
    /\ IF liveSeen
       THEN Apply(stopStream(Hook)) /\ restarts' = restarts + 1
       ELSE Apply(Hook) /\ restarts' = restarts
    /\ ops' = Append(ops, "updateConfig")
    /\ UNCHANGED <<liveSeen, streamMounted, dashVars, connVars, appVars>>

\* refresh(): manual regeneration
StreamRefresh ==
    /\ streamMounted /\ CanGenerate
    /\ Apply(generateFreshData(Hook))
    /\ UNCHANGED <<configRef, restarts, liveSeen, streamMounted, ops, dashVars, connVars, appVars>>

\* a live regeneration interval fires
StreamTick ==
    /\ CanGenerate
    /\ BagToSet(streamTimers) # {}
    /\ Apply(generateFreshData(Hook))
    /\ UNCHANGED <<configRef, restarts, liveSeen, streamMounted, ops, dashVars, connVars, appVars>>

\* a timeout scheduled by updateConfig fires: startStream()
RestartFire ==
    /\ restarts > 0
    /\ CanGenerate
    /\ streamMounted => Len(ops) < MaxBatch
    /\ restarts' = restarts - 1
    /\ Apply(startStream(Hook, configRef))
    /\ ops' = IF streamMounted THEN Append(ops, "restart") ELSE ops
    /\ UNCHANGED <<configRef, liveSeen, streamMounted, dashVars, connVars, appVars>>

\* React renders the hook: its callbacks now close over the current data.isLive
StreamRender ==
    /\ streamMounted
    /\ ops # <<>> \/ liveSeen # data.isLive
    /\ liveSeen' = data.isLive
    /\ ops' = <<>>
    /\ UNCHANGED <<data, intervalRef, configRef, streamTimers, restarts,
                   streamMounted, nextGen, dashVars, connVars, appVars>>

\* the cleanup effect: clearInterval(intervalRef.current), the ref is left as is
StreamUnmount ==
    /\ streamMounted
    /\ streamMounted' = FALSE
    /\ streamTimers' = IF intervalRef # <<>>
                       THEN streamTimers (-) SetToBag({intervalRef[1]})
                       ELSE streamTimers
    /\ UNCHANGED <<data, intervalRef, configRef, restarts, liveSeen, nextGen, ops,
                   dashVars, connVars, appVars>>

\* the hook after its first commit: the mount effect has generated a bundle
StreamInitWith(arg) ==
    /\ data = [revenue |-> 1, users |-> 1, performance |-> 1, keywords |-> 1,
               lastUpdated |-> 1, isLive |-> FALSE]
    /\ intervalRef = <<>>
    /\ configRef = MergeStreamConfig([interval |-> DefaultStreamInterval], arg)
    /\ streamTimers = EmptyBag
    /\ restarts = 0
    /\ liveSeen = FALSE
    /\ streamMounted = TRUE
    /\ nextGen = 2
    /\ ops = <<>>

StreamNext ==
    \/ StartStream
    \/ StopStream
    \/ ToggleStream
    \/ UpdateStreamConfig
    \/ StreamRefresh
    \/ StreamTick
    \/ RestartFire
    \/ StreamRender
    \/ StreamUnmount

---------------------------------------------------------------------------
(* Connection-status hook (useRealTimeData(options) of the real-time hooks, *)
(* used through useRealTimeMetrics by the demo controls)                    *)

\* connect() timeouts pending at once
MaxHandshakes == 2
\* new Date() stamps the connection hook takes in a behaviour
MaxUpdates == 4

\* the interval useRealTimeMetrics passes
MetricsInterval == 15000

Statuses == {"disconnected", "connecting", "connected"}

\* the hook's own state, passed through its callbacks
Conn == [isConnected |-> isConnected, connectionStatus |-> connectionStatus,
         lastUpdate |-> lastUpdate, intervalRef |-> connIntervalRef,
         timers |-> connTimers, handshakes |-> handshakes,
         delivered |-> delivered, nextUpdate |-> nextUpdate]

\* what a render of the hook reads: the enabled option and its state
ConnSnapshot == [enabled |-> enabled, isConnected |-> isConnected,
                 connectionStatus |-> connectionStatus]

\* connect(): the handshake timeout is scheduled and never kept
connect(c) ==
    [c EXCEPT !.connectionStatus = IF connMounted THEN "connecting" ELSE @,
              !.handshakes = @ + 1]

disconnect(c) ==
    LET d == IF connMounted THEN [c EXCEPT !.isConnected = FALSE,
                                           !.connectionStatus = "disconnected"]
             ELSE c
    IN  IF c.intervalRef # <<>>
        THEN [d EXCEPT !.timers = @ (-) SetToBag({c.intervalRef[1]}),
                       !.intervalRef = <<>>]
        ELSE d

\* the callback of the handshake timeout
handshakeDone(c) ==
    IF connMounted
    THEN [c EXCEPT !.isConnected = TRUE, !.connectionStatus = "connected",
                   !.lastUpdate = c.nextUpdate, !.nextUpdate = @ + 1]
    ELSE c

\* generateUpdate of a render that saw isConnected = connectedSeen
generateUpdate(c, connectedSeen) ==
    IF ~connectedSeen THEN c
    ELSE [c EXCEPT !.lastUpdate = IF connMounted THEN c.nextUpdate ELSE @,
                   !.delivered = c.nextUpdate,
                   !.nextUpdate = @ + 1]

\* the handle setInterval(generateUpdate, interval) returns in render r
ConnHandle(r) == [interval |-> MetricsInterval, connectedSeen |-> r.isConnected]

\* cleanup of the interval effect: the ref keeps the cleared handle
IntervalEffectCleanup(c) ==
    IF c.intervalRef # <<>>
    THEN [c EXCEPT !.timers = @ (-) SetToBag({c.intervalRef[1]})]
    ELSE c

IntervalEffectRun(c, r) ==
    IF r.enabled /\ r.isConnected
    THEN [c EXCEPT !.intervalRef = <<ConnHandle(r)>>,
                   !.timers = @ (+) SetToBag({ConnHandle(r)})]
    ELSE IF c.intervalRef # <<>>
    THEN [c EXCEPT !.timers = @ (-) SetToBag({c.intervalRef[1]}),
                   !.intervalRef = <<>>]
    ELSE c

\* dependencies [enabled, isConnected, interval, generateUpdate]: generateUpdate
\* is a new function exactly when isConnected changed
IntervalDepsChanged(old, new) ==
    old.enabled # new.enabled \/ old.isConnected # new.isConnected

AutoConnectEffect(c, r) ==
    IF r.enabled /\ r.connectionStatus = "disconnected" THEN connect(c)
    ELSE IF ~r.enabled /\ r.isConnected THEN disconnect(c)
    ELSE c

\* dependencies [enabled, isConnected, connectionStatus, connect, disconnect]
AutoConnectDepsChanged(old, new) == old # new

\* the effects of a commit that rendered `new` after `old`
ConnCommit(c, old, new) ==
    LET c1 == IF IntervalDepsChanged(old, new)
              THEN IntervalEffectRun(IntervalEffectCleanup(c), new) ELSE c
    IN  IF AutoConnectDepsChanged(old, new) THEN AutoConnectEffect(c1, new) ELSE c1

ApplyConn(c) ==
    /\ isConnected' = c.isConnected
    /\ connectionStatus' = c.connectionStatus
    /\ lastUpdate' = c.lastUpdate
    /\ connIntervalRef' = c.intervalRef
    /\ connTimers' = c.timers
    /\ handshakes' = c.handshakes
    /\ delivered' = c.delivered
    /\ nextUpdate' = c.nextUpdate

CanStamp == nextUpdate <= MaxUpdates

\* the owner flips the enabled option it passes
SetEnabled ==
    /\ connMounted
    /\ enabled' = ~enabled
    /\ ApplyConn(Conn)
    /\ connOp' = "setEnabled"
    /\ UNCHANGED <<connRendered, connMounted, dashVars, streamVars, appVars>>

\* a consumer calls the exposed connect()
Connect ==
    /\ connMounted
    /\ handshakes < MaxHandshakes
    /\ ApplyConn(connect(Conn))
    /\ connOp' = "connect"
    /\ UNCHANGED <<enabled, connRendered, connMounted, dashVars, streamVars, appVars>>

\* a consumer calls the exposed disconnect()
Disconnect ==
    /\ connMounted
    /\ ApplyConn(disconnect(Conn))
    /\ connOp' = "disconnect"
    /\ UNCHANGED <<enabled, connRendered, connMounted, dashVars, streamVars, appVars>>

\* a consumer calls forceUpdate: the generateUpdate of the last render
ForceUpdate ==
    /\ connMounted
    /\ CanStamp
    /\ ApplyConn(generateUpdate(Conn, connRendered.isConnected))
    /\ connOp' = "forceUpdate"
    /\ UNCHANGED <<enabled, connRendered, connMounted, dashVars, streamVars, appVars>>

\* a live interval of the hook fires its generateUpdate
ConnTick ==
    /\ CanStamp
    /\ \E t \in BagToSet(connTimers) : ApplyConn(generateUpdate(Conn, t.connectedSeen))
    /\ connOp' = "tick"
    /\ UNCHANGED <<enabled, connRendered, connMounted, dashVars, streamVars, appVars>>

\* a handshake timeout of connect() fires
HandshakeFire ==
    /\ handshakes > 0
    /\ CanStamp
    /\ ApplyConn([handshakeDone(Conn) EXCEPT !.handshakes = @ - 1])
    /\ connOp' = "handshake"
    /\ UNCHANGED <<enabled, connRendered, connMounted, dashVars, streamVars, appVars>>

\* React commits a render of the hook and runs the effects whose dependencies
\* changed: the interval effect, then the auto-connect effect
ConnRender ==
    /\ connMounted
    /\ connRendered # ConnSnapshot
    /\ ConnCommit(Conn, connRendered, ConnSnapshot).handshakes <= MaxHandshakes
    /\ connRendered' = ConnSnapshot
    /\ ApplyConn(ConnCommit(Conn, connRendered, ConnSnapshot))
    /\ connOp' = "render"
    /\ UNCHANGED <<enabled, connMounted, dashVars, streamVars, appVars>>

\* unmount: only the interval effect has a cleanup
ConnUnmount ==
    /\ connMounted
    /\ connMounted' = FALSE
    /\ ApplyConn(IntervalEffectCleanup(Conn))
    /\ connOp' = "unmount"
    /\ UNCHANGED <<enabled, connRendered, dashVars, streamVars, appVars>>

\* the hook after its first commit with the option off: both effects ran and
\* found nothing to do
ConnInit ==
    /\ enabled = FALSE
    /\ isConnected = FALSE
    /\ connectionStatus = "disconnected"
    /\ lastUpdate = 0
    /\ connIntervalRef = <<>>
    /\ connTimers = EmptyBag
    /\ handshakes = 0
    /\ connRendered = [enabled |-> FALSE, isConnected |-> FALSE,
                       connectionStatus |-> "disconnected"]
    /\ connMounted = TRUE
    /\ delivered = 0
    /\ nextUpdate = 1
    /\ connOp = "mount"

ConnNext ==
    \/ SetEnabled
    \/ Connect
    \/ Disconnect
    \/ ForceUpdate
    \/ ConnTick
    \/ HandshakeFire
    \/ ConnRender
    \/ ConnUnmount

---------------------------------------------------------------------------
(* Persisted preferences (useLocalStorage of the local-storage hooks) *)

\* storage events waiting in one window
MaxQueued == 2

\* two instances in one window and one in another, all on the same key
Instances == {"a1", "a2", "b1"}
Windows == {"a", "b"}
WindowOf(i) == IF i \in {"a1", "a2"} THEN "a" ELSE "b"

\* the initialValue of the hook and the values set
InitialValue == "light"
PreferenceValues == {"dark", "auto"}

\* getItem of a missing key and the newValue of a removal; the detail.value of
\* the custom event of a removal
NoItem == <<"null">>
NullValue == "null"

\* JSON.stringify and JSON.parse of a preference value
Stringify(v) == <<"json", v>>
Parse(item) == item[2]

\* useState initialiser: item ? JSON.parse(item) : initialValue
ReadStored(item) == IF item # NoItem THEN Parse(item) ELSE InitialValue

\* handleCustomStorageChange, run by every instance of the dispatching window
\* (the caller included): setStoredValue(e.detail.value ?? initialValue)
AfterCustomEvent(h, w, value) ==
    [i \in Instances |->
        IF WindowOf(i) = w THEN (IF value = NullValue THEN InitialValue ELSE value)
        ELSE h[i]]

\* handleStorageChange, run by every instance of a window that receives the
\* browser's storage event: a removal (newValue null) is skipped
AfterStorageEvent(h, w, e) ==
    [i \in Instances |->
        IF WindowOf(i) = w /\ e.newValue # NoItem THEN Parse(e.newValue) ELSE h[i]]

\* the browser queues a storage event in every other window when the item changed
Notify(w, item) ==
    [x \in Windows |->
        IF x # w /\ item # storage THEN Append(inbox[x], [newValue |-> item])
        ELSE inbox[x]]

CanNotify(w) == \A x \in Windows \ {w} : Len(inbox[x]) < MaxQueued

\* setValue(value) of instance i
SetValue ==
    \E i \in Instances : \E v \in PreferenceValues :
        /\ CanNotify(WindowOf(i))
        /\ storage' = Stringify(v)
        /\ held' = AfterCustomEvent([held EXCEPT ![i] = v], WindowOf(i), v)
        /\ inbox' = Notify(WindowOf(i), Stringify(v))
        /\ UNCHANGED <<boundary, caught, currentDate, revenueSeries, dashVars, streamVars, connVars>>

\* removeValue() of instance i
RemoveValue ==
    \E i \in Instances :
        /\ CanNotify(WindowOf(i))
        /\ storage' = NoItem
        /\ held' = AfterCustomEvent([held EXCEPT ![i] = InitialValue], WindowOf(i), NullValue)
        /\ inbox' = Notify(WindowOf(i), NoItem)
        /\ UNCHANGED <<boundary, caught, currentDate, revenueSeries, dashVars, streamVars, connVars>>

\* the oldest storage event queued for a window is dispatched
DeliverStorageEvent ==
    \E w \in Windows :
        /\ inbox[w] # <<>>
        /\ held' = AfterStorageEvent(held, w, Head(inbox[w]))
        /\ inbox' = [inbox EXCEPT ![w] = Tail(@)]
        /\ UNCHANGED <<storage, boundary, caught, currentDate, revenueSeries, dashVars, streamVars, connVars>>

\* every instance mounted on an empty storage
StorageInit ==
    /\ storage = NoItem
    /\ held = [i \in Instances |-> ReadStored(NoItem)]
    /\ inbox = [w \in Windows |-> <<>>]

StorageNext ==
    \/ SetValue
    \/ RemoveValue
    \/ DeliverStorageEvent

---------------------------------------------------------------------------
(* ErrorBoundary around ThemeProvider, DashboardProvider and the pages (App) *)

\* render errors caught in a behaviour
MaxCaught == 2

\* this.state of the boundary after construction and after handleRetry
NoFailure == [hasError |-> FALSE, error |-> "null", errorInfo |-> "null"]

\* getDerivedStateFromError followed by componentDidCatch
Caught == [hasError |-> TRUE, error |-> "RenderError", errorInfo |-> "componentStack"]

\* the boundary after construction
BoundaryInit ==
    /\ boundary = NoFailure
    /\ caught = 0

\* a component below the boundary throws while rendering: the boundary renders
\* its fallback instead of its children, so the provider and the hooks of the
\* pages are unmounted and their effect cleanups run
RenderThrows ==
    /\ ~boundary.hasError
    /\ caught < MaxCaught
    /\ mounted /\ streamMounted /\ connMounted
    /\ boundary' = Caught
    /\ caught' = caught + 1
    /\ mounted' = FALSE
    /\ dashTimers' = EffectCleanup(rendered, dashTimers)
    /\ streamMounted' = FALSE
    /\ streamTimers' = IF intervalRef # <<>>
                       THEN streamTimers (-) SetToBag({intervalRef[1]})
                       ELSE streamTimers
    /\ connMounted' = FALSE
    /\ connTimers' = IntervalEffectCleanup(Conn).timers
    /\ connOp' = "unmount"
    /\ UNCHANGED <<state, rendered, pending, refreshes, nextFetch,
                   data, intervalRef, configRef, restarts, liveSeen, nextGen, ops,
                   enabled, isConnected, connectionStatus, lastUpdate, connIntervalRef,
                   handshakes, connRendered, delivered, nextUpdate,
                   storage, held, inbox, currentDate, revenueSeries>>

\* handleRetry: the boundary renders its children again, which mounts a new
\* provider and new hooks; the fetches of the unmounted provider dispatch to a
\* reducer nobody reads any more and are dropped
handleRetry ==
    /\ boundary.hasError
    /\ CanGenerate
    /\ boundary' = NoFailure
    /\ state' = [initialState EXCEPT !.loading = [@ EXCEPT !.isLoading = TRUE]]
    /\ rendered' = Snapshot(initialState)
    /\ dashTimers' = EffectRun(Snapshot(initialState), dashTimers)
    /\ pending' = {Request(nextFetch, "metrics", 0, initialState.filters)}
    /\ nextFetch' = nextFetch + 1
    /\ mounted' = TRUE
    /\ data' = [revenue |-> nextGen, users |-> nextGen, performance |-> nextGen,
                keywords |-> nextGen, lastUpdated |-> nextGen, isLive |-> FALSE]
    /\ nextGen' = nextGen + 1
    /\ intervalRef' = <<>>
    /\ configRef' = MergeStreamConfig([interval |-> DefaultStreamInterval],
                                      [volatility |-> "0.3"])
    /\ liveSeen' = FALSE
    /\ streamMounted' = TRUE
    /\ ops' = <<>>
    /\ enabled' = FALSE
    /\ isConnected' = FALSE
    /\ connectionStatus' = "disconnected"
    /\ lastUpdate' = 0
    /\ connIntervalRef' = <<>>
    /\ connRendered' = [enabled |-> FALSE, isConnected |-> FALSE,
                        connectionStatus |-> "disconnected"]
    /\ connMounted' = TRUE
    /\ delivered' = 0
    /\ connOp' = "mount"
    /\ UNCHANGED <<refreshes, streamTimers, restarts, connTimers, handshakes,
                   nextUpdate, caught, storage, held, inbox, currentDate,
                   revenueSeries>>

\* the application under a render error: the provider fetching and being
\* configured, the stream of the analytics page started by its user
AppNext ==
    \/ RenderThrows
    \/ handleRetry
    \/ FetchSucceeds
    \/ FetchFails
    \/ updateFilters
    \/ updateConfig
    \/ Render
    \/ StartStream
    \/ StreamRender

---------------------------------------------------------------------------
(* Mock data generator (services/mockDataGenerator.ts): generateRevenueData *)

\* the years new Date() is drawn from
FirstYear == 2024
LastYear == 2026

\* the months argument: the default and the shortest series
MonthCounts == {1, 12}

\* streams of Math.random() results, in thousandths: all lowest, all highest,
\* and two that alternate
RandomStreams ==
    {[k \in 0..11 |-> 0], [k \in 0..11 |-> 999],
     [k \in 0..11 |-> IF k % 2 = 0 THEN 0 ELSE 999],
     [k \in 0..11 |-> IF k % 2 = 0 THEN 500 ELSE 250]}

\* 1000 * Math.sin((month / 12) * 2 * Math.PI), rounded
SinThousandths == <<0, 500, 866, 1000, 866, 500, 0, -500, -866, -1000, -866, -500>>

\* new Date(year, month, 1) without carrying the month into the year
DateOfSameYear(year, month) == [year |-> year, month |-> month % 12]

\* new Date(year, month, 1): a month outside 0..11 carries into the year
DateOf(year, month) == [year |-> year + (month \div 12), month |-> month % 12]

\* Math.round(baseRevenue * seasonalMultiplier * randomVariation * growthTrend)
\* with the three factors in thousandths, thousandths and hundredths, so that
\* the product is 50000 / 100000000 = 1 / 2000 of the product of the three
RevenueOf(date, random, step) ==
    LET seasonal == 1000 + (3 * SinThousandths[date.month + 1]) \div 10
        variation == 800 + (4 * random) \div 10
        growth == 100 + 5 * step
    IN  (seasonal * variation * growth + 1000) \div 2000

\* for (i = months - 1; i >= 0; i--): point k of the result is the one of i = months - k
generateRevenueData(months, now, random) ==
    [k \in 1..months |->
        LET i == months - k
            date == DateOf(now.year, now.month - i)
        IN  [year |-> date.year, month |-> date.month,
             y |-> RevenueOf(date, random[k - 1], months - i - 1)]]

\* a page or the stream hook generates the revenue series
GenerateRevenue ==
    /\ \E months \in MonthCounts : \E random \in RandomStreams :
            revenueSeries' = generateRevenueData(months, currentDate, random)
    /\ UNCHANGED <<currentDate, storage, held, inbox, boundary, caught,
                   dashVars, streamVars, connVars>>

\* any month of the years considered, nothing generated yet
GeneratorInit ==
    /\ currentDate \in [year : FirstYear..LastYear, month : 0..11]
    /\ revenueSeries = <<>>

\* the clock and the series of the specifications that do not generate
GeneratorIdle ==
    /\ currentDate = [year |-> FirstYear, month |-> 0]
    /\ revenueSeries = <<>>

---------------------------------------------------------------------------
(* Specifications *)

\* the provider mounted, beside a stream hook nobody drives
Init == DashInit /\ StreamInitWith([volatility |-> "0.3"]) /\ ConnInit /\ StorageInit /\ BoundaryInit /\ GeneratorIdle

\* the stream hook mounted with either config, beside a provider nobody drives
StreamInit == DashInit /\ ConnInit /\ StorageInit /\ BoundaryInit /\ GeneratorIdle /\ \E arg \in StreamConfigArgs : StreamInitWith(arg)

\* the provider under consumers that refresh, reconfigure and filter
Spec == Init /\ [][DashNext]_vars

\* the provider under consumers that also call the single fetch functions
\* and leave the config alone
FetchNext ==
    \/ ManualRefresh
    \/ RefreshTick
    \/ FetchOne
    \/ FetchSucceeds
    \/ FetchFails
    \/ updateFilters
    \/ clearError
    \/ Render

SpecFetch == Init /\ [][FetchNext]_vars

\* every api call returns or throws: the mocks await a timeout and axios is
\* created with a timeout
SpecFetchFair == SpecFetch /\ WF_vars(FetchSucceeds \/ FetchFails)

\* the provider under a filter bar and consumers that call the single fetches
FilterNext ==
    \/ UpdateFilterBar
    \/ FetchOne
    \/ FetchSucceeds
    \/ FetchFails
    \/ Render

SpecFilters == Init /\ [][FilterNext]_vars

\* the stream hook
SpecStream == StreamInit /\ [][StreamNext]_vars

\* the connection-status hook, beside a provider and a stream hook nobody drives
SpecConn == Init /\ [][ConnNext]_vars

\* the preference instances of two windows
SpecStorage == Init /\ [][StorageNext]_vars

\* the whole tree under the error boundary
SpecApp == Init /\ [][AppNext]_vars

\* the revenue generator called in any month
RevenueInit ==
    /\ DashInit /\ StreamInitWith([volatility |-> "0.3"]) /\ ConnInit
    /\ StorageInit /\ BoundaryInit /\ GeneratorInit

SpecRevenue == RevenueInit /\ [][GenerateRevenue]_vars

---------------------------------------------------------------------------
(* Orchestrator: properties *)

Datasets(s) ==
    [k \in Kinds |->
        CASE k = "metrics" -> s.metrics
          [] k = "salesData" -> s.salesData
          [] k = "userAnalytics" -> s.userAnalytics
          [] k = "performanceMetrics" -> s.performanceMetrics]

AllSettled(r) == \A k \in Kinds : r.outcomes[k] \in {"fulfilled", "rejected"}

\* no fetch was started after the four of refresh r
NothingStartedSince(r) == nextFetch = r.first + 4

RefreshAllSettles ==
    \A g \in 1..Len(refreshes) :
        LET r == refreshes[g]
        IN  /\ r.status # "rejected"
            /\ AllSettled(r) => r.status = "fulfilled"
            /\ (r.status = "fulfilled" /\ NothingStartedSince(r) /\ mounted)
                    => ~state.loading.isLoading

\* C1: the promise of refreshAllData() never rejects and is fulfilled as soon as
\* its four fetches have settled, whatever their outcomes; while no fetch has
\* been started since, loading.isLoading is false once it is fulfilled; and every
\* refreshAllData() that was invoked is eventually fulfilled.
C1_RefreshAllResolves ==
    /\ []RefreshAllSettles
    /\ \A g \in 1..MaxRefreshes :
            (Len(refreshes) >= g)
                ~> (Len(refreshes) >= g /\ refreshes[g].status = "fulfilled")

\* C1 witness: a refresh whose four fetches all failed is fulfilled and the
\* loading flag is down
C1_Witness ==
    \E g \in 1..Len(refreshes) :
        /\ refreshes[g].status = "fulfilled"
        /\ NothingStartedSince(refreshes[g])
        /\ state.error # NoError
        /\ \A k \in Kinds : Datasets(state)[k] < refreshes[g].first
        /\ state.metrics = 0
        /\ ~state.loading.isLoading

\* C2: a dataset changes only in the step in which a fetch of its own kind
\* returns, and then to that fetch's response; the step of a failure (a new
\* AppError is stored) changes no dataset at all.
C2_FailureLeavesDatasets ==
    [][/\ \A k \in Kinds :
            Datasets(state')[k] # Datasets(state)[k] =>
                \E f \in pending \ pending' :
                    f.kind = k /\ Datasets(state')[k] = f.id
       /\ (state'.error # state.error /\ state'.error # NoError) =>
                Datasets(state') = Datasets(state)]_vars

\* C2 witness: the failure of a sales fetch is the latest loading event and the
\* metrics fetched before it are still stored
C2_Witness ==
    /\ state.error # NoError
    /\ state.error.context = "fetchSalesData"
    /\ state.loading.error # NoMessage
    /\ state.metrics # 0
    /\ state.loading.lastUpdated = state.metrics

\* C3: every refreshAllData() has started a fetch of each of the four kinds, each
\* of them stays in flight until it settles itself whatever happened to the
\* others, and the promise is not fulfilled while one of the four is in flight.
C3_RefreshAllAttemptsAll ==
    \A g \in 1..Len(refreshes) :
        LET r == refreshes[g]
        IN  /\ \A k \in Kinds :
                /\ r.outcomes[k] # "unstarted"
                /\ r.outcomes[k] = "pending" <=>
                        \E f \in pending : f.group = g /\ f.kind = k
            /\ r.status = "fulfilled" => AllSettled(r)

\* C3 witness: one fetch of a refresh has failed, the other three are still in
\* flight and the promise is still pending
C3_Witness ==
    \E g \in 1..Len(refreshes) :
        /\ refreshes[g].status = "pending"
        /\ state.error # NoError
        /\ state.error.timestamp >= refreshes[g].first
        /\ Cardinality({f \in pending : f.group = g}) = 3

RefreshStartedByTimer ==
    /\ Len(refreshes') > Len(refreshes)
    /\ refreshes'[Len(refreshes')].by = "timer"

\* C4: when the last commit has auto-refresh off (autoRefresh false or
\* refreshInterval <= 0), or the provider is unmounted, no interval handle is
\* live; every live handle is the one the last commit's effect created; and the
\* timer invokes refreshAllData only while mounted with auto-refresh committed on.
C4_NoRefreshAfterTeardown ==
    /\ [](/\ (~mounted \/ ~EffectEnabled(rendered)) => dashTimers = EmptyBag
          /\ BagToSet(dashTimers) \subseteq {EffectTimer(rendered)})
    /\ [][RefreshStartedByTimer => mounted /\ EffectEnabled(rendered)]_vars

\* C4 witness: auto-refresh was switched off and committed before the timer ever
\* fired, and no handle is left
C4_Witness ==
    /\ mounted
    /\ ~rendered.config.autoRefresh
    /\ rendered.config.refreshInterval > 0
    /\ dashTimers = EmptyBag
    /\ refreshes = <<>>

\* C5: at most one auto-refresh handle is live, and while the provider is mounted
\* with auto-refresh committed on it is exactly one, scheduled with the committed
\* refreshInterval.
C5_SingleTimerAtCommittedInterval ==
    /\ BagCardinality(dashTimers) <= 1
    /\ \A t \in BagToSet(dashTimers) : t.interval = rendered.config.refreshInterval
    /\ (mounted /\ EffectEnabled(rendered)) => BagCardinality(dashTimers) = 1

\* C5 witness: the interval was changed from the default with autoRefresh on, and
\* the one live handle has the new interval
C5_Witness ==
    /\ mounted
    /\ rendered.config.autoRefresh
    /\ rendered.config.refreshInterval # DefaultRefreshInterval
    /\ BagToSet(dashTimers) = {EffectTimer(rendered)}
    /\ BagCardinality(dashTimers) = 1

---------------------------------------------------------------------------
(* Stream hook: properties *)

Toggled == ops' = Append(ops, "toggleStream")
ConfigUpdated == ops' = Append(ops, "updateConfig")

\* C6: once the component owning the hook is unmounted no timer of the hook is
\* pending: no regeneration interval and no delayed restart of updateConfig.
C6_NoTimerAfterUnmount ==
    ~streamMounted => (streamTimers = EmptyBag /\ restarts = 0)

\* C7: at most one regeneration interval is running in every reachable state.
C7_AtMostOneInterval == BagCardinality(streamTimers) <= 1

\* C7 witness: the restart scheduled by updateConfig fired after the consumer
\* had started the stream again itself, and one interval is running
C7_Witness ==
    /\ ops = <<"startStream", "restart">>
    /\ data.isLive
    /\ BagCardinality(streamTimers) = 1

\* C8 as stated: after two toggleStream calls with no render between them the
\* active state has changed once and exactly one regeneration timer is left.
C8_DoubleToggleLeavesOneTimer ==
    (streamMounted /\ ops = <<"toggleStream", "toggleStream">>) =>
        /\ data.isLive # liveSeen
        /\ BagCardinality(streamTimers) = 1

\* C8 amended: after two toggleStream calls with no render between them the
\* active state has changed once, and the timers left are one if the pair
\* started the stream and none if it stopped it.
C8_DoubleToggleFlipsOnce ==
    (streamMounted /\ ops = <<"toggleStream", "toggleStream">>) =>
        /\ data.isLive # liveSeen
        /\ BagCardinality(streamTimers) = IF data.isLive THEN 1 ELSE 0

\* C8 witness: two immediate toggles of a stopped stream: it is live with one timer
C8_Witness ==
    /\ streamMounted
    /\ ops = <<"toggleStream", "toggleStream">>
    /\ data.isLive
    /\ ~liveSeen
    /\ BagCardinality(streamTimers) = 1

C10_CadenceChangeRestarts ==
    [][(ConfigUpdated /\ streamTimers # EmptyBag
            /\ configRef'.interval # configRef.interval) =>
            /\ streamTimers' = EmptyBag
            /\ restarts' = restarts + 1]_vars

\* C11: the effective configuration of the stream hook always holds a positive
\* interval, and every regeneration timer was scheduled with a positive interval:
\* an updateConfig with a non-positive interval is rejected.
C11_IntervalAlwaysPositive ==
    /\ configRef.interval > 0
    /\ \A t \in BagToSet(streamTimers) : t.interval > 0

---------------------------------------------------------------------------
(* Connection-status hook: properties *)

\* C12: connectionStatus changes only along disconnected -> connecting,
\* connecting -> connected and connected -> disconnected.
C12_OrderedTransitions ==
    [][connectionStatus' # connectionStatus =>
            <<connectionStatus, connectionStatus'>> \in
                {<<"disconnected", "connecting">>, <<"connecting", "connected">>,
                 <<"connected", "disconnected">>}]_vars

\* C13: an interval timer of the connection hook is live only while
\* connectionStatus is connected; a step to disconnected leaves no timer; and no
\* tick delivers an update while the status is disconnected.
C13_TimerOnlyWhileConnected ==
    /\ [](connTimers # EmptyBag => connectionStatus = "connected")
    /\ [][(connectionStatus' = "disconnected" /\ connectionStatus # "disconnected")
                => connTimers' = EmptyBag]_vars
    /\ [][(connOp' = "tick" /\ connectionStatus = "disconnected")
                => delivered' = delivered]_vars

\* C14: every forceUpdate() call, whatever the connection state, delivers a
\* bundle stamped by that call and sets lastUpdate to its stamp, and changes
\* neither isConnected, connectionStatus nor the running timer.
C14_ForceUpdateAlwaysDelivers ==
    [][connOp' = "forceUpdate" =>
            /\ delivered' = nextUpdate
            /\ lastUpdate' = nextUpdate
            /\ UNCHANGED <<isConnected, connectionStatus, connTimers>>]_vars

---------------------------------------------------------------------------
(* Orchestrator: properties of the single operations *)

\* C15: a fetchSalesData issued while the filters hold a category hands the
\* current filters to the api layer, and the request it sends carries that
\* category in its parameters.
C15_FiltersFlowIntoRequest ==
    [][\A f \in pending' \ pending :
            (f.kind = "salesData" /\ state.filters.category # NoValue) =>
                /\ f.sent = state.filters.category
                /\ f.params.category = state.filters.category]_vars

\* C16: a fetch of any kind raises loading.isLoading in the step that starts it,
\* and the step in which it returns its response stores the response as the
\* dataset of its kind and stamps loading.lastUpdated with that moment.
C16_FetchSetsLoadingAndStamp ==
    [][/\ (mounted /\ pending' \ pending # {}) => state'.loading.isLoading
       /\ \A f \in pending \ pending' :
            (mounted /\ state' = dashboardReducer(state, SuccessAction(f))) =>
                /\ Datasets(state')[f.kind] = f.id
                /\ state'.loading.lastUpdated = f.id]_vars

\* a complete AppError as handleError builds it at moment `now` in `context`
CompleteAppError(e, context, now) ==
    /\ e.code \in {"DASHBOARD_ERROR", "API_ERROR_UNKNOWN", "UNKNOWN_ERROR"}
    /\ e.message \notin {"", NoMessage, NoValue}
    /\ e.context = context
    /\ e.timestamp = now

\* C17: the step in which a fetch of a mounted provider ends without its
\* response stores a complete AppError (code DASHBOARD_ERROR or the transport
\* code, message, details naming the fetch, timestamp of the failure) in
\* state.error and leaves loading.isLoading false, and the promise of the fetch is
\* fulfilled, not rejected; handleError builds such an AppError from an Error as
\* well as from the object the api layer throws.
C17_FetchNeverRejects ==
    /\ [][\A f \in pending \ pending' :
            (mounted /\ Datasets(state')[f.kind] # f.id) =>
                /\ CompleteAppError(state'.error, ContextOf(f.kind), f.id)
                /\ ~state'.loading.isLoading
                /\ state'.loading.error = state'.error.message
                /\ f.group > 0 =>
                        refreshes'[f.group].outcomes[f.kind] = "fulfilled"]_vars
    /\ [](\A thrown \in Throwables : \A k \in Kinds :
            CompleteAppError(handleError(thrown, ContextOf(k), nextFetch).payload,
                             ContextOf(k), nextFetch))
    /\ [](\A g \in 1..Len(refreshes) : \A k \in Kinds :
            refreshes[g].outcomes[k] # "rejected")

\* C17 witness: the sales fetch of a refresh threw the api layer's AppError; the
\* error is stored under DASHBOARD_ERROR with the transport code in its details,
\* the loading flag is down and the promise of the fetch is fulfilled
C17_Witness ==
    \E g \in 1..Len(refreshes) :
        /\ refreshes[g].outcomes["salesData"] = "fulfilled"
        /\ state.salesData = 0
        /\ state.error.code = "DASHBOARD_ERROR"
        /\ state.error.cause = "API_ERROR_UNKNOWN"
        /\ state.error.context = "fetchSalesData"
        /\ state.error.timestamp = refreshes[g].first + 1
        /\ ~state.loading.isLoading

\* C18: a step of updateFilters leaves the filters equal to the filters before
\* it overridden by the fields of one partial, starts no fetch, and leaves the
\* datasets, the loading state, the error and the config unchanged.
C18_UpdateFiltersMergesCurrent ==
    [][state'.filters.ref # state.filters.ref =>
            /\ \E partial \in FilterBarPartials :
                    state'.filters = MergeFilters(state.filters, partial,
                                                  state.filters.ref + 1)
            /\ pending' = pending /\ nextFetch' = nextFetch
            /\ Datasets(state') = Datasets(state)
            /\ state'.loading = state.loading
            /\ state'.error = state.error
            /\ state'.config = state.config]_vars

\* C19: a step of clearError leaves state.error and loading.error null and the
\* four datasets, the filters, the config and the fetches in flight as they were.
C19_ClearErrorOnlyClears ==
    [][clearError =>
            /\ state'.error = NoError
            /\ state'.loading.error = NoMessage
            /\ Datasets(state') = Datasets(state)
            /\ state'.filters = state.filters
            /\ state'.config = state.config
            /\ pending' = pending]_vars

\* C19 witness: the sales fetch of a refresh failed and the error was cleared
\* while other fetches were still in flight; the metrics fetched before and the
\* updated filters are still there
C19_Witness ==
    \E g \in 1..Len(refreshes) :
        /\ refreshes[g].outcomes["salesData"] = "fulfilled"
        /\ state.salesData = 0
        /\ state.error = NoError
        /\ state.loading.error = NoMessage
        /\ state.metrics # 0
        /\ state.filters.category \in Categories
        /\ pending # {}

---------------------------------------------------------------------------
(* Stream hook: the bundle *)

\* C20: in every state revenue, users, performance, keywords and lastUpdated of
\* the stream hook come from the same generation, and every step that
\* regenerates replaces all five with the new generation at once.
C20_BundleReplacedAtomically ==
    /\ [](/\ data.revenue = data.lastUpdated
          /\ data.users = data.lastUpdated
          /\ data.performance = data.lastUpdated
          /\ data.keywords = data.lastUpdated)
    /\ [][nextGen' # nextGen =>
            /\ data'.revenue = nextGen /\ data'.users = nextGen
            /\ data'.performance = nextGen /\ data'.keywords = nextGen
            /\ data'.lastUpdated = nextGen
            /\ nextGen' = nextGen + 1]_vars

\* C20 witness: after a start, a stop and further regenerations the bundle of the
\* latest generation is in place while the stream is stopped
C20_Witness ==
    /\ streamMounted
    /\ ops = <<"startStream", "stopStream">>
    /\ ~data.isLive
    /\ data.lastUpdated > 3
    /\ data.keywords = nextGen - 1

---------------------------------------------------------------------------
(* Persisted preferences: properties *)

\* C21: once every storage event has been delivered, every instance on the key
\* holds the value in storage, or the initial value when the key is absent.
C21_InstancesFollowStorage ==
    (\A w \in Windows : inbox[w] = <<>>) =>
        \A i \in Instances : held[i] = ReadStored(storage)

---------------------------------------------------------------------------
(* ErrorBoundary: properties *)

\* C22: a step of the error boundary (catching a render error, or the retry
\* action) changes only the boundary's own fields: the orchestrator's datasets,
\* filters, config and error and the simulator's bundle and active state are the
\* same after the step as before it; and after the retry the boundary's fields
\* are hasError false, error null, errorInfo null.
C22_RetryKeepsAppState ==
    /\ [](~boundary.hasError => boundary = NoFailure)
    /\ [][boundary' # boundary =>
            /\ Datasets(state') = Datasets(state)
            /\ state'.filters = state.filters
            /\ state'.config = state.config
            /\ state'.error = state.error
            /\ data' = data]_vars

---------------------------------------------------------------------------
(* Mock data generator: properties *)

\* calendar months since year 0
MonthIndex(p) == 12 * p.year + p.month

\* C23: a series generated for 12 months has exactly 12 points; each point is in
\* the calendar month after the one before it, also across a year boundary, and
\* the last is in the current month; every y is a non-negative integer.
C23_RevenueSeriesConsecutive ==
    Len(revenueSeries) = 12 =>
        /\ \A k \in 1..12 : revenueSeries[k].month \in 0..11
        /\ \A k \in 1..11 :
                MonthIndex(revenueSeries[k + 1]) = MonthIndex(revenueSeries[k]) + 1
        /\ MonthIndex(revenueSeries[12]) = MonthIndex(currentDate)
        /\ \A k \in 1..12 : revenueSeries[k].y \in Nat

\* C23 witness: a series generated in March starts in April of the year before
C23_Witness ==
    /\ Len(revenueSeries) = 12
    /\ currentDate.month = 2
    /\ revenueSeries[1].month = 3
    /\ revenueSeries[1].year = currentDate.year - 1
    /\ revenueSeries[10].month = 0
    /\ revenueSeries[10].year = currentDate.year
    /\ revenueSeries[12].y > 0

---------------------------------------------------------------------------
(* Orchestrator: loading flag, error fields, overlapping fetches, timer *)

\* C24: while a metrics fetch is in flight, loading.isLoading is true.
C24_LoadingWhileMetricsPending ==
    (\E f \in pending : f.kind = "metrics") => state.loading.isLoading

\* C25: loading.error is null exactly when state.error is null, and is
\* state.error.message otherwise.
C25_ErrorFieldsAgree ==
    IF state.error = NoError
    THEN state.loading.error = NoMessage
    ELSE state.loading.error = state.error.message

C27_TimerSurvivesFilterUpdate ==
    [][(/\ mounted'
        /\ EffectEnabled(rendered) /\ EffectEnabled(rendered')
        /\ rendered'.config.refreshInterval = rendered.config.refreshInterval)
            => dashTimers' = dashTimers]_vars

\* C28: an updateFilters call made after another one with no render in between
\* leaves the filters equal to the result of the first call overridden by the
\* fields of its own partial.
C28_SecondUpdateKeepsFirst ==
    [][(/\ state'.filters.ref # state.filters.ref
        /\ state.filters.ref = rendered.filters.ref + 1)
            => \E p2 \in FilterBarPartials :
                    state'.filters = MergeFilters(state.filters, p2,
                                                  state.filters.ref + 1)]_vars

---------------------------------------------------------------------------
(* Stream hook and connection hook: staying off *)

\* C29: after a stopStream() call, a step that is not the consumer's next
\* startStream() or toggleStream() call leaves the stream inactive: isLive false
\* and no interval kept.
C29_StoppedStaysStopped ==
    [][(/\ streamMounted
        /\ Len(ops) > 0 /\ ops[Len(ops)] = "stopStream"
        /\ ops' \notin {Append(ops, "startStream"), Append(ops, "toggleStream")})
            => (~data'.isLive /\ intervalRef' = <<>>)]_vars

\* C30: no render of the connection hook shows it connected with enabled off, and
\* a handshake that completes while enabled is off leaves the status disconnected.
C30_ConnectedOnlyWhileEnabled ==
    /\ [](connRendered.isConnected => connRendered.enabled)
    /\ [][(connMounted /\ connOp' = "handshake" /\ ~enabled)
                => (~isConnected' /\ connectionStatus' = "disconnected")]_vars

=============================================================================
